---- MODULE Spec2Model ----
(***************************************************************************)
(* Model of pymc_marketing/mmm/validating.py: the validation_method tag    *)
(* and the four validation traits (target, date, channel and control       *)
(* columns), applied to a pandas DataFrame.                                *)
(***************************************************************************)
EXTENDS Integers, Sequences, FiniteSets, TLC

VARIABLES
    data,       \* the DataFrame handed to a validator: column name -> sequence of cells
    self,       \* the host object: target_column, date_column, channel_columns, control_columns
    method,     \* the validator invoked last ("none" before the first call)
    outcome,    \* what that call did: "ok" (returned None) or the error it raised
    tags,       \* function -> its _tags attribute (absent, or a mapping tag name -> bool)
    calls,      \* function -> how many times validation_method was applied to it
    arg,        \* the function handed to the last validation_method call
    returned,   \* what that call returned
    traits,     \* the validation traits the host's class composes, in declaration order
    invoked,    \* the validators the validation run has invoked so far, in order
    status,     \* the validation run: "running", "valid" or "failed"
    error,      \* the error the run propagated ("none" while there is none)
    heap,       \* the transform instances constructed so far: object id -> class
    key,        \* the key of the last registry lookup
    resolved    \* what that lookup returned or raised

validate_vars == <<data, self, method, outcome>>
tag_vars == <<tags, calls, arg, returned>>
run_vars == <<traits, invoked, status, error>>
registry_vars == <<heap, key, resolved>>
vars == <<data, self, method, outcome, tags, calls, arg, returned,
          traits, invoked, status, error, heap, key, resolved>>

----------------------------------------------------------------------------
(* Bounds of the inputs *)

MaxRows == 2
MaxLen == 2

Names == {"a", "b"}
Values == {-1, 0}

Range(s) == {s[i] : i \in DOMAIN s}

SeqsUpTo(S, n) == UNION {[1..k -> S] : k \in 0..n}

\* DataFrames: every column holds the same number of rows.
Tables ==
    UNION {UNION {[cols -> [1..n -> Values]] : n \in 0..MaxRows} : cols \in SUBSET Names}

\* Python values an attribute may hold: a list, a tuple, a str, or None.
None == [type |-> "NoneType", items |-> <<>>]
NotASequence == [type |-> "str", items |-> <<>>]
AttrValues ==
    [type : {"list", "tuple"}, items : SeqsUpTo(Names, MaxLen)] \cup {NotASequence, None}

Hosts ==
    [target_column : Names, date_column : Names,
     channel_columns : AttrValues, control_columns : AttrValues]

----------------------------------------------------------------------------
(* pandas and builtins, as the validators use them *)

\* data.columns
columns(df) == DOMAIN df

\* isinstance(v, (list, tuple))
isinstance_list_tuple(v) == v.type \in {"list", "tuple"}

\* len(v)
len(v) == Len(v.items)

\* set(v)
set(v) == Range(v.items)

\* Series.is_unique
is_unique(series) ==
    \A i, j \in DOMAIN series : series[i] = series[j] => i = j

\* DataFrame.__getitem__: a list selects those columns as a DataFrame; a tuple
\* is one column label, and no column of the table is labelled by a tuple.
getitem(df, k) ==
    IF k.type = "list"
    THEN [raised |-> FALSE, frame |-> [c \in Range(k.items) |-> df[c]]]
    ELSE [raised |-> TRUE, exc |-> "KeyError"]

\* DataFrame < 0, elementwise
lt0(frame) == [c \in DOMAIN frame |-> [i \in DOMAIN frame[c] |-> frame[c][i] < 0]]

\* DataFrame.any(): reduces over the rows, giving a Series with one boolean per column
any(frame) == [c \in DOMAIN frame |-> \E i \in DOMAIN frame[c] : frame[c][i]]

\* bool(Series): NDFrame.__bool__ always raises ValueError (truth value is ambiguous)
bool_Series(series) == [raised |-> TRUE, exc |-> "AmbiguousTruthValue"]

----------------------------------------------------------------------------
(* The validators: the error raised, or "ok" *)

\* Mutant: the membership test is dropped.
TargetOutcome_NoCheck(o, df) == "ok"

TargetOutcome(o, df) ==
    IF o.target_column \notin columns(df) THEN "MissingColumn" ELSE "ok"

\* Mutant: the uniqueness test is dropped.
DateOutcome_NoUnique(o, df) ==
    IF o.date_column \notin columns(df) THEN "MissingColumn" ELSE "ok"

DateOutcome(o, df) ==
    IF o.date_column \notin columns(df) THEN "MissingColumn"
    ELSE IF ~is_unique(df[o.date_column]) THEN "DuplicateValues"
    ELSE "ok"

NegativeCheck(cols, df) ==
    LET sel == getitem(df, cols) IN
    IF sel.raised THEN sel.exc
    ELSE LET cond == bool_Series(any(lt0(sel.frame))) IN
         IF cond.raised THEN cond.exc
         ELSE IF cond.value THEN "NegativeValue" ELSE "ok"

ChannelOutcome(o, df) ==
    IF ~isinstance_list_tuple(o.channel_columns) THEN "InvalidType"
    ELSE IF len(o.channel_columns) = 0 THEN "EmptyCollection"
    ELSE IF ~(set(o.channel_columns) \subseteq columns(df)) THEN "MissingColumn"
    ELSE IF Cardinality(set(o.channel_columns)) # len(o.channel_columns) THEN "DuplicateValues"
    ELSE NegativeCheck(o.channel_columns, df)

\* Mutant: the early return for None is dropped.
ControlOutcome_NoNone(o, df) ==
    IF ~isinstance_list_tuple(o.control_columns) THEN "InvalidType"
    ELSE IF len(o.control_columns) = 0 THEN "EmptyCollection"
    ELSE IF ~(set(o.control_columns) \subseteq columns(df)) THEN "MissingColumn"
    ELSE IF Cardinality(set(o.control_columns)) # len(o.control_columns) THEN "DuplicateValues"
    ELSE "ok"

\* Mutant: the duplicate test is dropped.
ControlOutcome_NoDuplicates(o, df) ==
    IF o.control_columns = None THEN "ok"
    ELSE IF ~isinstance_list_tuple(o.control_columns) THEN "InvalidType"
    ELSE IF len(o.control_columns) = 0 THEN "EmptyCollection"
    ELSE IF ~(set(o.control_columns) \subseteq columns(df)) THEN "MissingColumn"
    ELSE "ok"

ControlOutcome(o, df) ==
    IF o.control_columns = None THEN "ok"
    ELSE IF ~isinstance_list_tuple(o.control_columns) THEN "InvalidType"
    ELSE IF len(o.control_columns) = 0 THEN "EmptyCollection"
    ELSE IF ~(set(o.control_columns) \subseteq columns(df)) THEN "MissingColumn"
    ELSE IF Cardinality(set(o.control_columns)) # len(o.control_columns) THEN "DuplicateValues"
    ELSE "ok"

----------------------------------------------------------------------------
(* The validation_method decorator *)

Functions == {"f", "g"}
TagNames == {"validation", "other"}

EmptyMap == [n \in {} |-> TRUE]

\* A function without a _tags attribute
NoAttr == [has |-> FALSE, map |-> EmptyMap]

TagStates ==
    {NoAttr} \cup {[has |-> TRUE, map |-> m] : m \in UNION {[S -> BOOLEAN] : S \in SUBSET TagNames}}

\* Mutant: the _tags attribute is replaced instead of updated.
validation_method_reset(fn, t) ==
    [result |-> fn, tags |-> [has |-> TRUE, map |-> [n \in {"validation"} |-> TRUE]]]

\* Mutant: the tag is stored as False.
validation_method_untagged(fn, t) ==
    LET t1 == IF ~t.has THEN EmptyMap ELSE t.map
    IN [result |-> fn,
        tags |-> [has |-> TRUE,
                  map |-> [n \in DOMAIN t1 \cup {"validation"} |->
                              IF n = "validation" THEN FALSE ELSE t1[n]]]]

\* validation_method(method), on the function fn whose _tags attribute is t:
\* the function returned and the _tags attribute it is left with.
validation_method(fn, t) ==
    LET t1 == IF ~t.has THEN EmptyMap ELSE t.map
        t2 == [n \in DOMAIN t1 \cup {"validation"} |->
                  IF n = "validation" THEN TRUE ELSE t1[n]]
    IN [result |-> fn, tags |-> [has |-> TRUE, map |-> t2]]

\* getattr(m, "_tags", {}).get("validation", False)
is_validation(t) ==
    t.has /\ "validation" \in DOMAIN t.map /\ t.map["validation"]

----------------------------------------------------------------------------
(* The validation run over the traits a class composes *)

Traits == {"ValidateTargetColumn", "ValidateDateColumn",
           "ValidateChannelColumns", "ValidateControlColumns"}

\* The validator each trait declares
ValidatorOf(trait) ==
    CASE trait = "ValidateTargetColumn" -> "validate_target"
      [] trait = "ValidateDateColumn" -> "validate_date_col"
      [] trait = "ValidateChannelColumns" -> "validate_channel_columns"
      [] trait = "ValidateControlColumns" -> "validate_control_columns"

Validators == {ValidatorOf(t) : t \in Traits}

\* The methods of the classes: the four validators, tagged where they are
\* defined, and a method of the composing class that carries no tag.
Methods == Validators \cup {"fit"}

ClassTags ==
    [m \in Methods |->
        IF m \in Validators THEN validation_method(m, NoAttr).tags ELSE NoAttr]

\* What invoking validator m on (o, df) does
Invoke(m, o, df) ==
    CASE m = "validate_target" -> TargetOutcome(o, df)
      [] m = "validate_date_col" -> DateOutcome(o, df)
      [] m = "validate_channel_columns" -> ChannelOutcome(o, df)
      [] m = "validate_control_columns" -> ControlOutcome(o, df)

\* The compositions: every subset of the traits, in every declaration order
TraitOrders ==
    {s \in SeqsUpTo(Traits, Cardinality(Traits)) : \A i, j \in DOMAIN s : s[i] = s[j] => i = j}

\* The methods reachable on an object whose class composes ts, in resolution order
ClassMethods(ts) == [i \in 1..Len(ts) |-> ValidatorOf(ts[i])] \o <<"fit">>

\* Mutant: discovery in the alphabetical order of the method names.
validation_methods_alphabetical(ts, tg) ==
    SelectSeq(<<"fit", "validate_channel_columns", "validate_control_columns",
                "validate_date_col", "validate_target">>,
              LAMBDA m : m \in Range(ClassMethods(ts)) /\ is_validation(tg[m]))

\* Discovery: the reachable methods tagged validation = true, in that order
validation_methods(ts, tg) ==
    SelectSeq(ClassMethods(ts), LAMBDA m : is_validation(tg[m]))

----------------------------------------------------------------------------
(* The transform registry *)

MaxObjects == 3

Classes == {"LogisticSaturation", "InverseScaledLogisticSaturation", "TanhSaturation",
            "TanhSaturationBaselined", "MichaelisMentenSaturation", "HillSaturation",
            "RootSaturation"}

\* The name table: registered name -> concrete transform class
SATURATION_TRANSFORMATIONS ==
    [n \in {"logistic", "inverse_scaled_logistic", "tanh", "tanh_baselined",
            "michaelis_menten", "hill", "root"} |->
        CASE n = "logistic" -> "LogisticSaturation"
          [] n = "inverse_scaled_logistic" -> "InverseScaledLogisticSaturation"
          [] n = "tanh" -> "TanhSaturation"
          [] n = "tanh_baselined" -> "TanhSaturationBaselined"
          [] n = "michaelis_menten" -> "MichaelisMentenSaturation"
          [] n = "hill" -> "HillSaturation"
          [] n = "root" -> "RootSaturation"]

NameKey(n) == [kind |-> "str", name |-> n, id |-> 0]
InstanceKey(i) == [kind |-> "instance", name |-> "", id |-> i]

NoResult == [raised |-> FALSE, id |-> 0, exc |-> "none"]

\* Mutant: an instance is copied instead of passed through.
get_saturation_function_copy(k, h) ==
    IF k.kind = "instance"
    THEN [heap |-> Append(h, h[k.id]),
          result |-> [raised |-> FALSE, id |-> Len(h) + 1, exc |-> "none"]]
    ELSE IF k.name \notin DOMAIN SATURATION_TRANSFORMATIONS
    THEN [heap |-> h, result |-> [raised |-> TRUE, id |-> 0, exc |-> "UnknownTransform"]]
    ELSE [heap |-> Append(h, SATURATION_TRANSFORMATIONS[k.name]),
          result |-> [raised |-> FALSE, id |-> Len(h) + 1, exc |-> "none"]]

\* _get_saturation_function(k) on heap h: the heap afterwards and the object
\* returned (its id) or the error raised.
get_saturation_function(k, h) ==
    IF k.kind = "instance"
    THEN [heap |-> h, result |-> [raised |-> FALSE, id |-> k.id, exc |-> "none"]]
    ELSE IF k.name \notin DOMAIN SATURATION_TRANSFORMATIONS
    THEN [heap |-> h, result |-> [raised |-> TRUE, id |-> 0, exc |-> "UnknownTransform"]]
    ELSE [heap |-> Append(h, SATURATION_TRANSFORMATIONS[k.name]),
          result |-> [raised |-> FALSE, id |-> Len(h) + 1, exc |-> "none"]]

----------------------------------------------------------------------------
(* Specification of the validators called one by one on (self, data) *)

TagIdle ==
    /\ tags = ClassTags
    /\ calls = [m \in Methods |-> IF m \in Validators THEN 1 ELSE 0]
    /\ arg = "none"
    /\ returned = "none"

RunIdle ==
    /\ traits = <<>>
    /\ invoked = <<>>
    /\ status = "idle"
    /\ error = "none"

RegistryIdle ==
    /\ heap = <<>>
    /\ key = NameKey("")
    /\ resolved = NoResult

ValidateIdle ==
    /\ data = [c \in {} |-> <<>>]
    /\ self = [target_column |-> "a", date_column |-> "a",
               channel_columns |-> None, control_columns |-> None]
    /\ method = "none"
    /\ outcome = "none"

Init ==
    /\ data \in Tables
    /\ self \in Hosts
    /\ method = "none"
    /\ outcome = "none"
    /\ TagIdle /\ RunIdle /\ RegistryIdle

validate_target ==
    /\ method' = "validate_target"
    /\ outcome' = TargetOutcome(self, data)
    /\ UNCHANGED <<data, self, tag_vars, run_vars, registry_vars>>

validate_date_col ==
    /\ method' = "validate_date_col"
    /\ outcome' = DateOutcome(self, data)
    /\ UNCHANGED <<data, self, tag_vars, run_vars, registry_vars>>

\* Mutant: the validator rebinds the attribute to a list before checking it.
validate_channel_columns_rebinding ==
    /\ method' = "validate_channel_columns"
    /\ outcome' = ChannelOutcome(self, data)
    /\ self' = [self EXCEPT !.channel_columns =
                   IF @.type = "tuple" THEN [@ EXCEPT !.type = "list"] ELSE @]
    /\ UNCHANGED <<data, tag_vars, run_vars, registry_vars>>

validate_channel_columns ==
    /\ method' = "validate_channel_columns"
    /\ outcome' = ChannelOutcome(self, data)
    /\ UNCHANGED <<data, self, tag_vars, run_vars, registry_vars>>

validate_control_columns ==
    /\ method' = "validate_control_columns"
    /\ outcome' = ControlOutcome(self, data)
    /\ UNCHANGED <<data, self, tag_vars, run_vars, registry_vars>>

Next ==
    \/ validate_target
    \/ validate_date_col
    \/ validate_channel_columns
    \/ validate_control_columns

Spec == Init /\ [][Next]_vars

----------------------------------------------------------------------------
(* Specification of validation_method applied to functions, repeatedly *)

MaxCalls == 2

InitTag ==
    /\ tags \in [Functions -> TagStates]
    /\ calls = [fn \in Functions |-> 0]
    /\ arg = "none"
    /\ returned = "none"
    /\ ValidateIdle /\ RunIdle /\ RegistryIdle

Decorate(fn) ==
    /\ calls[fn] < MaxCalls
    /\ LET r == validation_method(fn, tags[fn]) IN
         /\ tags' = [tags EXCEPT ![fn] = r.tags]
         /\ returned' = r.result
    /\ arg' = fn
    /\ calls' = [calls EXCEPT ![fn] = @ + 1]
    /\ UNCHANGED <<validate_vars, run_vars, registry_vars>>

NextTag == \E fn \in Functions : Decorate(fn)

SpecTag == InitTag /\ [][NextTag]_vars

----------------------------------------------------------------------------
(* Specification of one validation run of a composite object *)

\* The hosts of the runs: channel_columns names at most one column, and
\* control_columns is absent or names the channel columns
RunHosts ==
    {o \in Hosts : /\ Len(o.channel_columns.items) <= 1
                   /\ o.control_columns \in {None, o.channel_columns}}

InitRun ==
    /\ data \in Tables
    /\ self \in RunHosts
    /\ method = "none"
    /\ outcome = "none"
    /\ traits \in TraitOrders
    /\ invoked = <<>>
    /\ status = "running"
    /\ error = "none"
    /\ TagIdle /\ RegistryIdle

\* One turn of the runner's loop: invoke the next discovered validator; an
\* error it raises ends the run.
RunValidator ==
    /\ status = "running"
    /\ Len(invoked) < Len(validation_methods(traits, tags))
    /\ LET m == validation_methods(traits, tags)[Len(invoked) + 1]
           r == Invoke(m, self, data)
       IN /\ invoked' = Append(invoked, m)
          /\ method' = m
          /\ outcome' = r
          /\ IF r = "ok"
             THEN UNCHANGED <<status, error>>
             ELSE status' = "failed" /\ error' = r
    /\ UNCHANGED <<data, self, traits, tag_vars, registry_vars>>

\* The loop is exhausted: the run returns normally.
RunReturn ==
    /\ status = "running"
    /\ Len(invoked) = Len(validation_methods(traits, tags))
    /\ status' = "valid"
    /\ UNCHANGED <<validate_vars, traits, invoked, error, tag_vars, registry_vars>>

NextRun == RunValidator \/ RunReturn

SpecRun == InitRun /\ [][NextRun]_vars

----------------------------------------------------------------------------
(* Specification of the registry lookups *)

RegisteredNames == DOMAIN SATURATION_TRANSFORMATIONS

InitResolve ==
    /\ heap = <<>>
    /\ key = NameKey("")
    /\ resolved = NoResult
    /\ ValidateIdle /\ TagIdle /\ RunIdle

\* Direct construction of a transform, e.g. LogisticSaturation()
Construct(cls) ==
    /\ Len(heap) < MaxObjects
    /\ heap' = Append(heap, cls)
    /\ UNCHANGED <<key, resolved, validate_vars, tag_vars, run_vars>>

Resolve(k) ==
    /\ LET r == get_saturation_function(k, heap) IN
         /\ Len(r.heap) <= MaxObjects
         /\ heap' = r.heap
         /\ resolved' = r.result
    /\ key' = k
    /\ UNCHANGED <<validate_vars, tag_vars, run_vars>>

ResolveName == \E n \in RegisteredNames : Resolve(NameKey(n))
ResolveUnknown == Resolve(NameKey("unknown"))
ResolveInstance == \E i \in DOMAIN heap : Resolve(InstanceKey(i))

NextResolve ==
    \/ \E cls \in Classes : Construct(cls)
    \/ ResolveName
    \/ ResolveUnknown
    \/ ResolveInstance

SpecResolve == InitResolve /\ [][NextResolve]_vars

----------------------------------------------------------------------------
(* Properties *)

\* v passes the four structural checks on df: a list or tuple, not empty,
\* every name a column of df, no name repeated.
Structural == {"InvalidType", "EmptyCollection", "MissingColumn", "DuplicateValues"}

IsSequence(v) == v.type = "list" \/ v.type = "tuple"
Distinct(sq) == Cardinality(Range(sq)) = Len(sq)
PassesStructure(v, df) ==
    /\ IsSequence(v)
    /\ v.items # <<>>
    /\ \A i \in DOMAIN v.items : v.items[i] \in DOMAIN df
    /\ Distinct(v.items)

\* Some cell of df in the columns v names is negative.
HasNegative(v, df) ==
    \E c \in Range(v.items) \cap DOMAIN df : \E i \in DOMAIN df[c] : df[c][i] < 0

AnyNegative(df) == \E c \in DOMAIN df : \E i \in DOMAIN df[c] : df[c][i] < 0

\* C1: for channel_columns a non-empty list or tuple of distinct names that are
\* all columns of the table, validate_channel_columns raises the negative-value
\* error exactly when one of those columns holds a negative value, and returns
\* normally otherwise.
C1_NegativeValueExactly ==
    (method = "validate_channel_columns" /\ PassesStructure(self.channel_columns, data))
        => outcome = IF HasNegative(self.channel_columns, data) THEN "NegativeValue" ELSE "ok"

\* C2: validate_date_col raises the missing-column error when date_column is
\* no column of the table; otherwise the duplicate-values error when the
\* column's values are not all distinct; otherwise it returns normally.
C2_DateColumn ==
    method = "validate_date_col" =>
        outcome = IF self.date_column \notin DOMAIN data THEN "MissingColumn"
                  ELSE IF ~Distinct(data[self.date_column]) THEN "DuplicateValues"
                  ELSE "ok"

C2_Witness ==
    /\ method = "validate_date_col"
    /\ outcome = "DuplicateValues"
    /\ Len(data[self.date_column]) = 2

\* C3: validate_target raises the missing-column error if and only if
\* target_column is no column of the table, and returns normally when it is
\* one, whatever the column holds.
C3_TargetColumn ==
    method = "validate_target" =>
        /\ outcome = "MissingColumn" <=> self.target_column \notin DOMAIN data
        /\ self.target_column \in DOMAIN data => outcome = "ok"

C3_Witness ==
    /\ method = "validate_target"
    /\ outcome = "ok"
    /\ data[self.target_column] = <<-1, -1>>

\* C4: with control_columns None, validate_control_columns returns normally
\* for every table.
C4_ControlNone ==
    (method = "validate_control_columns" /\ self.control_columns = None)
        => outcome = "ok"

C4_Witness ==
    /\ method = "validate_control_columns"
    /\ self.control_columns = None
    /\ outcome = "ok"
    /\ AnyNegative(data)

\* C5: for control_columns = V other than None, validate_control_columns
\* raises a structural error (invalid type, empty, missing column, duplicates)
\* exactly when validate_channel_columns with channel_columns = V raises that
\* same error, and returns normally whenever V passes the four structural
\* checks, negative values or not.
C5_ControlLikeChannel ==
    (method = "validate_control_columns" /\ self.control_columns # None) =>
        LET V == self.control_columns
            channel == ChannelOutcome([self EXCEPT !.channel_columns = V], data)
        IN /\ \A e \in Structural : outcome = e <=> channel = e
           /\ outcome \in Structural \cup {"ok"}
           /\ PassesStructure(V, data) => outcome = "ok"

C5_Witness ==
    /\ method = "validate_control_columns"
    /\ PassesStructure(self.control_columns, data)
    /\ HasNegative(self.control_columns, data)
    /\ outcome = "ok"

\* C6: every invocation of a validator, returning or raising, leaves the
\* table and the host object as they were.
C6_NoMutation == [][data' = data /\ self' = self]_vars

C6_Witness ==
    /\ method # "none"
    /\ outcome \notin {"none", "ok"}
    /\ self.channel_columns.type = "tuple"

\* C7: once validation_method has been applied to a function, the function
\* carries validation = true in every later state; an application never
\* removes or changes another tag of the function, and returns the function
\* it was given.
C7_TagKept ==
    /\ [](\A fn \in DOMAIN calls : calls[fn] > 0 => is_validation(tags[fn]))
    /\ [][/\ \A fn \in DOMAIN tags :
                \A n \in DOMAIN tags[fn].map \ {"validation"} :
                    /\ tags'[fn].has
                    /\ n \in DOMAIN tags'[fn].map
                    /\ tags'[fn].map[n] = tags[fn].map[n]
          /\ returned' = arg']_vars

C7_Witness ==
    /\ calls["f"] = 2
    /\ is_validation(tags["f"])
    /\ "other" \in DOMAIN tags["f"].map
    /\ returned = "f"

\* C8: the validation run invokes the validators tagged validation = true in
\* the declaration order of the composed traits and stops at the first one
\* that raises: the error propagated is that of the first violated trait in
\* that order, and no later validator is invoked.
DeclaredOrder == [i \in 1..Len(traits) |-> ValidatorOf(traits[i])]
Violated == {i \in DOMAIN traits : Invoke(ValidatorOf(traits[i]), self, data) # "ok"}
FirstViolated ==
    IF Violated = {} THEN 0 ELSE CHOOSE i \in Violated : \A j \in Violated : i <= j

C8_FailFastInOrder ==
    /\ \A i \in DOMAIN invoked : is_validation(tags[invoked[i]])
    /\ status = "running" =>
          /\ error = "none"
          /\ Len(invoked) <= Len(traits)
          /\ invoked = SubSeq(DeclaredOrder, 1, Len(invoked))
          /\ FirstViolated = 0 \/ Len(invoked) < FirstViolated
    /\ status = "failed" =>
          /\ FirstViolated > 0
          /\ invoked = SubSeq(DeclaredOrder, 1, FirstViolated)
          /\ error = Invoke(ValidatorOf(traits[FirstViolated]), self, data)
    /\ status = "valid" =>
          /\ FirstViolated = 0
          /\ invoked = DeclaredOrder
          /\ error = "none"

C8_Witness ==
    /\ status = "failed"
    /\ traits = <<"ValidateTargetColumn", "ValidateDateColumn",
                  "ValidateControlColumns", "ValidateChannelColumns">>
    /\ invoked = <<"validate_target", "validate_date_col">>
    /\ error = "DuplicateValues"
    /\ ChannelOutcome(self, data) = "InvalidType"

\* C9: resolving a registered name returns an instance of that name's own
\* transform class, and resolving an instance returns that very instance.
test_get_saturation_function_cases ==
    {<<"inverse_scaled_logistic", "InverseScaledLogisticSaturation">>,
     <<"logistic", "LogisticSaturation">>,
     <<"tanh", "TanhSaturation">>,
     <<"tanh_baselined", "TanhSaturationBaselined">>,
     <<"michaelis_menten", "MichaelisMentenSaturation">>,
     <<"hill", "HillSaturation">>,
     <<"root", "RootSaturation">>}

C9_Resolve ==
    /\ (key.kind = "str" /\ \E c \in test_get_saturation_function_cases : c[1] = key.name) =>
          /\ ~resolved.raised
          /\ resolved.id \in DOMAIN heap
          /\ <<key.name, heap[resolved.id]>> \in test_get_saturation_function_cases
    /\ key.kind = "instance" =>
          /\ ~resolved.raised
          /\ resolved.id = key.id

C9_Witness ==
    /\ key = InstanceKey(2)
    /\ resolved.id = 2
    /\ heap = <<"HillSaturation", "RootSaturation", "TanhSaturation">>

C9_WitnessName ==
    /\ key = NameKey("hill")
    /\ ~resolved.raised
    /\ heap[resolved.id] = "HillSaturation"

\* C10: validate_channel_columns checks type, emptiness, column membership,
\* duplicate names and negative values in that order and reports the first
\* check that is violated.
FirstViolatedCheck(v, df) ==
    IF ~IsSequence(v) THEN "InvalidType"
    ELSE IF v.items = <<>> THEN "EmptyCollection"
    ELSE IF \E i \in DOMAIN v.items : v.items[i] \notin DOMAIN df THEN "MissingColumn"
    ELSE IF ~Distinct(v.items) THEN "DuplicateValues"
    ELSE IF HasNegative(v, df) THEN "NegativeValue"
    ELSE "none"

C10_FirstViolatedReported ==
    (method = "validate_channel_columns"
        /\ FirstViolatedCheck(self.channel_columns, data) # "none")
        => outcome = FirstViolatedCheck(self.channel_columns, data)

====
